---- MODULE Spec2Model ----
(***************************************************************************)
(* The task state engine of src/src/App.tsx: the React component App, its  *)
(* state (todos, newTodoText, filter, isDarkMode), the two localStorage    *)
(* effects, and the handlers addTodo, toggleTodo, deleteTodo.              *)
(*                                                                         *)
(* A step of the model is one browser event: the handler the event calls,  *)
(* then React's synchronous re-render and the effects whose dependencies   *)
(* changed.  A handler reads the `todos` of the render that created it.    *)
(* The add button and the text input are re-created by every render, so    *)
(* addTodo always reads the current state.  An item's buttons live inside  *)
(* <AnimatePresence>: when the item leaves filteredTodos its element stays *)
(* in the page while the exit animation runs, still carrying the handlers  *)
(* (and so the `todos`) of the last render in which the item was shown.    *)
(***************************************************************************)
EXTENDS Integers, Sequences, FiniteSets, TLC

\* ------------------------------------------------------------------ bounds

\* How many distinct ids generateId can hand out in one run.
NumIds == 1
\* How many leaving items can still be on the page when the next event comes.
MaxExiting == 1

IdPool == <<"b", "c", "d">>
Ids == {IdPool[i] : i \in 1..NumIds}
ClockReadings == {2}
Filters == {"all", "active", "completed"}

RECURSIVE SeqsUpTo(_, _)
SeqsUpTo(S, n) ==
    IF n = 0 THEN {<<>>}
    ELSE LET shorter == SeqsUpTo(S, n - 1)
         IN  shorter \cup {Append(s, c) : s \in {t \in shorter : Len(t) = n - 1}, c \in S}

\* What is typed into the input: nothing, a blank, a word between blanks.
TextInputs == {<<>>, <<" ">>, <<" ", "x", " ">>}

\* ------------------------------------------------------- values and texts

\* JavaScript values, tagged by type.
JNull == [tag |-> "null"]
JNumber == [tag |-> "number"]
JObject == [tag |-> "object"]
JArray(items) == [tag |-> "array", items |-> items]
JDate(t) == [tag |-> "Date", time |-> t]
IsoString(t) == [tag |-> "string", iso |-> t]
TodoObject(id, text, completed, createdAt) ==
    [tag |-> "todo", id |-> id, text |-> text, completed |-> completed,
     createdAt |-> createdAt]

\* What localStorage.getItem returns: null for an absent key, else a string.
\* A string is the empty string, text that is not JSON, or a JSON text, which
\* is written as the JSON value it denotes.
Absent == [kind |-> "absent"]
EmptyText == [kind |-> "empty"]
GarbageText == [kind |-> "garbage"]
JsonText(v) == [kind |-> "json", value |-> v]
BoolText(b) == JsonText([tag |-> "boolean", b |-> b])

\* String.prototype.trim: whitespace removed from both ends.
RECURSIVE TrimStart(_)
TrimStart(s) ==
    IF s # <<>> /\ Head(s) = " " THEN TrimStart(Tail(s)) ELSE s

RECURSIVE TrimEnd(_)
TrimEnd(s) ==
    IF s # <<>> /\ s[Len(s)] = " " THEN TrimEnd(SubSeq(s, 1, Len(s) - 1)) ELSE s

Trim(s) == TrimEnd(TrimStart(s))

\* JSON.stringify(todos): a Date is written by its toJSON, an ISO string.
StringifyEntry(e) ==
    IF e.tag = "todo"
    THEN [e EXCEPT !.createdAt = IF e.createdAt.tag = "Date"
                                 THEN IsoString(e.createdAt.time)
                                 ELSE e.createdAt]
    ELSE e

Stringify(v) ==
    JsonText(IF v.tag = "array"
             THEN JArray([i \in 1..Len(v.items) |-> StringifyEntry(v.items[i])])
             ELSE v)

\* The reviver of line 13: key === 'createdAt' ? new Date(value) : value.
ReviveEntry(e) ==
    IF e.tag = "todo"
    THEN [e EXCEPT !.createdAt = IF e.createdAt.tag = "string"
                                 THEN JDate(e.createdAt.iso)
                                 ELSE e.createdAt]
    ELSE e

\* JSON.parse throws on text that is not JSON.
ParseThrows(text) == text.kind # "json"

JsonParse(text) ==
    IF text.value.tag = "array"
    THEN JArray([i \in 1..Len(text.value.items) |-> ReviveEntry(text.value.items[i])])
    ELSE text.value

\* The useState initializer of todos.
LoadTodos(savedTodos) ==
    IF savedTodos.kind \notin {"absent", "empty"}
    THEN IF ParseThrows(savedTodos) THEN JArray(<<>>) ELSE JsonParse(savedTodos)
    ELSE JArray(<<>>)

\* The useState initializer of isDarkMode.
LoadDarkMode(savedMode) == savedMode = BoolText(TRUE)

\* The render reads todos.filter(...) and todo.completed of every entry: it
\* throws a TypeError when todos is no array or an entry is null.
RenderThrows(v) ==
    \/ v.tag # "array"
    \/ \E i \in 1..Len(v.items) : v.items[i].tag # "todo"

\* ---------------------------------------------------------- derived views

FilteredTodos(items, f) ==
    SelectSeq(items, LAMBDA todo :
        IF f = "active" THEN ~todo.completed
        ELSE IF f = "completed" THEN todo.completed
        ELSE TRUE)

\* The active count taken with the filter of the completed count.
ActiveCountOfCompleted(items) == Len(SelectSeq(items, LAMBDA todo : todo.completed))

ActiveCount(items) == Len(SelectSeq(items, LAMBDA todo : ~todo.completed))
CompletedCount(items) == Len(SelectSeq(items, LAMBDA todo : todo.completed))

IdsOf(items) == {items[i].id : i \in 1..Len(items)}

\* ------------------------------------------------------ handler arithmetic

\* The new task put last: [...todos, newTodo].
Appended(items, newTodo) == items \o <<newTodo>>

\* [newTodo, ...todos]
Prepended(items, newTodo) == <<newTodo>> \o items

\* todos.map(todo => todo.id === id ? {...todo, completed: !todo.completed} : todo)
Toggled(items, id) ==
    [i \in 1..Len(items) |->
        IF items[i].id = id
        THEN [items[i] EXCEPT !.completed = ~items[i].completed]
        ELSE items[i]]

\* todos.filter(todo => todo.id !== id)
Without(items, id) == SelectSeq(items, LAMBDA todo : todo.id # id)

\* The completed flag of the first entry with this id.
CompletedOf(items, id) ==
    items[CHOOSE i \in 1..Len(items) :
            /\ items[i].id = id
            /\ \A j \in 1..(i - 1) : items[j].id # id].completed

\* toggleTodo shows the toast for an entry it turns to completed.
CompletesOne(items, id) ==
    \E i \in 1..Len(items) : items[i].id = id /\ ~items[i].completed

\* ------------------------------------------------------------------ state

VARIABLES
    localStorage,   \* the device store: key -> what getItem returns
    phase,          \* "start" before the first render, "running", "crashed"
    todos,          \* useState<Todo[]>
    newTodoText,    \* useState('')
    filter,         \* useState<TodoFilter>('all')
    isDarkMode,     \* useState(savedMode === 'true')
    exiting,        \* id -> the todos its leaving element's handlers read
    toast,          \* the notification the last event showed, "none" if none
    issued,         \* the ids generateId must not return again
    lastToggle      \* history: the toggle the last event applied, if any

vars == <<localStorage, phase, todos, newTodoText, filter, isDarkMode,
          exiting, toast, issued, lastToggle>>

\* The React state of the component, as one record.
state ==
    [todos |-> todos, newTodoText |-> newTodoText, filter |-> filter,
     isDarkMode |-> isDarkMode, toast |-> toast, issued |-> issued,
     lastToggle |-> lastToggle]

NoToggle == [op |-> "none"]
NoExiting == [k \in {} |-> JArray(<<>>)]

\* The state of useState's defaults, lines 24-26.
InitialState ==
    [todos |-> JArray(<<>>), newTodoText |-> <<>>, filter |-> "all",
     isDarkMode |-> FALSE, toast |-> "none", issued |-> {},
     lastToggle |-> NoToggle]

\* What the key 'todos' may hold when the page is opened: nothing, the empty
\* string, text that is not JSON, JSON that is no array, and the arrays of at
\* most two entries, each a task written by an earlier session or null.
StoredEntries ==
    { TodoObject("a", <<"x">>, FALSE, IsoString(1)), JNull }

StoredTodos ==
    {Absent, EmptyText, GarbageText, JsonText(JNull), JsonText(JNumber),
     JsonText(JObject)}
    \cup {JsonText(JArray(items)) : items \in SeqsUpTo(StoredEntries, 2)}

\* Every id an entry can carry: a generated one or one read from the store.
KnownIds == Ids \cup {e.id : e \in {s \in StoredEntries : s.tag = "todo"}}

StoredDarkMode == {Absent, BoolText(TRUE), BoolText(FALSE)}

SetState(s) ==
    /\ todos' = s.todos
    /\ newTodoText' = s.newTodoText
    /\ filter' = s.filter
    /\ isDarkMode' = s.isDarkMode
    /\ toast' = s.toast
    /\ issued' = s.issued
    /\ lastToggle' = s.lastToggle

Init ==
    /\ localStorage \in [todos : StoredTodos, darkMode : StoredDarkMode]
    /\ phase = "start"
    /\ todos = InitialState.todos
    /\ newTodoText = InitialState.newTodoText
    /\ filter = InitialState.filter
    /\ isDarkMode = InitialState.isDarkMode
    /\ toast = InitialState.toast
    /\ issued = InitialState.issued
    /\ lastToggle = InitialState.lastToggle
    /\ exiting = NoExiting

\* ---------------------------------------------------------------- effects

\* The effect with the write left out: the store keeps what it held.
SaveTodosNotWritten(store, value) == store

\* localStorage.setItem('todos', JSON.stringify(todos)), lines 33-35.
SaveTodos(store, value) == [store EXCEPT !.todos = Stringify(value)]

\* localStorage.setItem('darkMode', isDarkMode.toString()), lines 38-39.
SaveDarkMode(store, flag) == [store EXCEPT !.darkMode = BoolText(flag)]

\* <AnimatePresence>: the items shown by the last render that the new render
\* does not show stay on the page while their exit animation runs (0.2 s),
\* with the handlers of the last render.  At most MaxExiting of them are
\* followed; the animation of the others is taken to have ended.
Leaving(oldItems, oldFilter, newItems, newFilter) ==
    ((DOMAIN exiting) \cup IdsOf(FilteredTodos(oldItems, oldFilter)))
        \ IdsOf(FilteredTodos(newItems, newFilter))

NextExiting(keep, oldTodos, oldFilter) ==
    [k \in keep |->
        IF k \in IdsOf(FilteredTodos(oldTodos.items, oldFilter))
        THEN oldTodos ELSE exiting[k]]

Min(a, b) == IF a < b THEN a ELSE b

Rerender(newTodos, newFilter) ==
    LET leaving == Leaving(todos.items, filter, newTodos.items, newFilter)
    IN  \E keep \in SUBSET leaving :
            /\ Cardinality(keep) = Min(Cardinality(leaving), MaxExiting)
            /\ exiting' = NextExiting(keep, todos, filter)

\* setItem throws when the store refuses the write (quota).  No handler and
\* no effect catches it and the file sets up no error boundary, so React
\* removes the component tree: the state and every element are gone, and only
\* the store is left, as it was before the write.
Unmount ==
    /\ phase' = "crashed"
    /\ SetState(InitialState)
    /\ exiting' = NoExiting
    /\ UNCHANGED localStorage

\* The end of an event: the state the handler set is rendered, and the effect
\* whose dependency changed writes `store`, or throws.
Commit(next, store, ok) ==
    IF ok
    THEN /\ SetState(next)
         /\ Rerender(next.todos, next.filter)
         /\ localStorage' = store
         /\ UNCHANGED phase
    ELSE Unmount

\* -------------------------------------------------------------- operations

\* The first render: the useState initializers, the render, both effects.
\* When the first effect throws, whether the second still runs depends on the
\* React version: both are possible.
Mount ==
    /\ phase = "start"
    /\ LET loaded == LoadTodos(localStorage.todos)
           dark == LoadDarkMode(localStorage.darkMode)
       IN  IF RenderThrows(loaded)
           THEN /\ phase' = "crashed"
                /\ SetState([InitialState EXCEPT !.todos = loaded, !.isDarkMode = dark])
                /\ UNCHANGED <<localStorage, exiting>>
           ELSE \E okTodos \in BOOLEAN, okDark \in BOOLEAN, runsSecond \in BOOLEAN :
                  LET first == IF okTodos THEN SaveTodos(localStorage, loaded)
                               ELSE localStorage
                      second == IF okDark /\ (okTodos \/ runsSecond)
                                THEN SaveDarkMode(first, dark) ELSE first
                  IN  /\ localStorage' = second
                      /\ IF okTodos /\ okDark
                         THEN /\ phase' = "running"
                              /\ SetState([InitialState EXCEPT
                                              !.todos = loaded,
                                              !.isDarkMode = dark,
                                              !.issued = IdsOf(loaded.items)])
                         ELSE /\ phase' = "crashed"
                              /\ SetState(InitialState)
                      /\ UNCHANGED exiting

\* onChange of the input: setNewTodoText(e.target.value), line 199.
ChangeText(value) ==
    /\ phase = "running"
    /\ value # newTodoText
    /\ Commit([state EXCEPT !.newTodoText = value, !.toast = "none",
                            !.lastToggle = NoToggle],
              localStorage, TRUE)

\* generateId() of ./lib/utils: an id not handed out before.
GenerateId == Ids \ issued

AddedTodos(items, id, text, now) ==
    Prepended(items, TodoObject(id, Trim(text), FALSE, JDate(now)))

\* The guard without the trim: only the empty text is refused.
IsEmptyUntrimmed(text) == text = <<>>

\* The guard of addTodo, line 48: !newTodoText.trim().
IsBlank(text) == Trim(text) = <<>>

\* addTodo, lines 47-63, from the add button or the Enter key.
addTodo ==
    /\ phase = "running"
    /\ IF IsBlank(newTodoText)
       THEN Commit([state EXCEPT !.toast = "Task cannot be empty",
                                 !.lastToggle = NoToggle],
                   localStorage, TRUE)
       ELSE \E id \in GenerateId, now \in ClockReadings, ok \in BOOLEAN :
              LET next == JArray(AddedTodos(todos.items, id, newTodoText, now))
              IN  Commit([state EXCEPT !.todos = next,
                                       !.newTodoText = <<>>,
                                       !.toast = "Task added",
                                       !.issued = issued \cup {id},
                                       !.lastToggle = NoToggle],
                         SaveTodos(localStorage, next), ok)

\* toggleTodo(id), lines 65-79, called by a button whose render saw `seen`.
toggleTodo(id, seen) ==
    \E ok \in BOOLEAN :
        LET next == JArray(Toggled(seen.items, id))
        IN  Commit([state EXCEPT
                       !.todos = next,
                       !.toast = IF CompletesOne(seen.items, id)
                                 THEN "Task completed!" ELSE "none",
                       !.lastToggle =
                           IF id \in IdsOf(todos.items)
                           THEN [op |-> "toggle", id |-> id,
                                 was |-> CompletedOf(todos.items, id)]
                           ELSE NoToggle],
                   SaveTodos(localStorage, next), ok)

\* deleteTodo(id), lines 81-84, called by a button whose render saw `seen`.
deleteTodo(id, seen) ==
    \E ok \in BOOLEAN :
        LET next == JArray(Without(seen.items, id))
        IN  Commit([state EXCEPT !.todos = next,
                                 !.toast = "Task deleted",
                                 !.lastToggle = NoToggle],
                   SaveTodos(localStorage, next), ok)

\* The ids whose item the current render shows.
Shown == IdsOf(FilteredTodos(todos.items, filter))

\* A click on the toggle button of a shown item (line 283).
ClickToggle(id) == phase = "running" /\ id \in Shown /\ toggleTodo(id, todos)

\* A click on the toggle button of an item that is leaving the page.
ClickToggleExiting(id) ==
    phase = "running" /\ id \in DOMAIN exiting /\ toggleTodo(id, exiting[id])

\* A click on the delete button of a shown item (line 319).
ClickDelete(id) == phase = "running" /\ id \in Shown /\ deleteTodo(id, todos)

\* A click on the delete button of an item that is leaving the page.
ClickDeleteExiting(id) ==
    phase = "running" /\ id \in DOMAIN exiting /\ deleteTodo(id, exiting[id])

\* onClick of a filter button: setFilter(filterType), line 237.
SetFilter(f) ==
    /\ phase = "running"
    /\ f # filter
    /\ Commit([state EXCEPT !.filter = f, !.toast = "none",
                            !.lastToggle = NoToggle],
              localStorage, TRUE)

\* onClick of the theme button: setIsDarkMode(!isDarkMode), line 150.
ToggleDarkMode ==
    /\ phase = "running"
    /\ \E ok \in BOOLEAN :
         Commit([state EXCEPT !.isDarkMode = ~isDarkMode, !.toast = "none",
                              !.lastToggle = NoToggle],
                SaveDarkMode(localStorage, ~isDarkMode), ok)

\* The exit animation of a leaving item ends: its element is removed.
ExitComplete(id) ==
    /\ phase = "running"
    /\ id \in DOMAIN exiting
    /\ exiting' = [k \in (DOMAIN exiting) \ {id} |-> exiting[k]]
    /\ UNCHANGED <<localStorage, phase, todos, newTodoText, filter, isDarkMode,
                   toast, issued, lastToggle>>

Next ==
    \/ Mount
    \/ \E value \in TextInputs : ChangeText(value)
    \/ addTodo
    \/ \E id \in KnownIds : ClickToggle(id)
    \/ \E id \in KnownIds : ClickToggleExiting(id)
    \/ \E id \in KnownIds : ClickDelete(id)
    \/ \E id \in KnownIds : ClickDeleteExiting(id)
    \/ \E f \in Filters : SetFilter(f)
    \/ ToggleDarkMode
    \/ \E id \in KnownIds : ExitComplete(id)

Spec == Init /\ [][Next]_vars

\* ------------------------------------------------------------ derived views

filteredTodos == FilteredTodos(todos.items, filter)
activeTodosCount == ActiveCount(todos.items)
completedTodosCount == CompletedCount(todos.items)

\* ------------------------------------------------------------------ claims

\* A text of blanks only, the empty text included.
AllBlank(text) == \A i \in 1..Len(text) : text[i] = " "

\* s is t without the blanks at its two ends.
IsTrimOf(s, t) ==
    \E i \in 1..Len(t), j \in 1..Len(t) :
        /\ i <= j
        /\ s = SubSeq(t, i, j)
        /\ t[i] # " " /\ t[j] # " "
        /\ \A k \in 1..Len(t) : (k < i \/ k > j) => t[k] = " "

ToggleStep(id) == ClickToggle(id) \/ ClickToggleExiting(id)
DeleteStep(id) == ClickDelete(id) \/ ClickDeleteExiting(id)

\* C1: while the component is mounted, that is after the first render and
\* after every event whose store write did not fail, the key 'todos' holds
\* the serialization of exactly the current in-memory collection.
C1_WriteThrough ==
    phase = "running" => localStorage.todos = Stringify(todos)

\* C1 witness: a mutation changed a non-empty collection and the store
\* holds its serialization.
C1_Witness ==
    /\ phase = "running"
    /\ toast \in {"Task added", "Task deleted", "Task completed!"}
    /\ Len(todos.items) > 0
    /\ localStorage.todos = Stringify(todos)

\* The store content that is a JSON array of task objects.
IsTaskArrayText(text) ==
    /\ text.kind = "json"
    /\ text.value.tag = "array"
    /\ \A i \in 1..Len(text.value.items) : text.value.items[i].tag = "todo"

\* C2: when the key 'todos' is absent or holds anything but an array of task
\* objects, the first render starts from the empty collection and does not
\* throw.
C2_InvalidStoreStartsEmpty ==
    [][(Mount /\ ~IsTaskArrayText(localStorage.todos))
          => (todos' = JArray(<<>>) /\ ~RenderThrows(todos'))]_vars

\* An event that changes the collection: an add, a toggle or a delete.
MutationStep == addTodo \/ \E id \in KnownIds : ToggleStep(id) \/ DeleteStep(id)

\* C3: a store write that fails does not stop the engine: every add, toggle
\* and delete, the ones whose write the store refuses included, leaves the
\* component mounted and able to take the next event.
C3_WriteFailureNonFatal ==
    [][MutationStep => phase' = "running"]_vars

\* C4: a toggle or a delete whose id matches no task of the collection leaves
\* the collection as it is.
C4_MissingIdIsNoOp ==
    [][\A id \in KnownIds :
          ((ToggleStep(id) \/ DeleteStep(id))
              /\ id \notin IdsOf(todos.items) /\ phase' = "running")
          => todos' = todos]_vars

\* C5: addTodo with a text of blanks only shows the validation error and
\* leaves the collection, its order included, unchanged.
C5_BlankAddRejected ==
    [][(addTodo /\ AllBlank(newTodoText))
          => (todos' = todos /\ toast' = "Task cannot be empty")]_vars

\* C5 witness: a text of blanks was submitted against a non-empty collection
\* and was refused.
C5_Witness ==
    /\ phase = "running"
    /\ toast = "Task cannot be empty"
    /\ newTodoText = <<" ">>
    /\ Len(todos.items) > 0

\* C6: after a successful addTodo of a text that is not blank, the first
\* task of the collection, and of the view under the filter 'all', is a new
\* task with the trimmed text and completed = false, and the tasks that were
\* there follow it unchanged and in their order.
C6_AddPrepends ==
    [][(addTodo /\ ~AllBlank(newTodoText) /\ phase' = "running")
          => /\ Len(todos'.items) = Len(todos.items) + 1
             /\ IsTrimOf(Head(todos'.items).text, newTodoText)
             /\ Head(todos'.items).completed = FALSE
             /\ Tail(todos'.items) = todos.items
             /\ Head(FilteredTodos(todos'.items, "all")) = Head(todos'.items)]_vars

\* C6 witness: a task was added in front of one that was already there.
C6_Witness ==
    /\ phase = "running"
    /\ toast = "Task added"
    /\ Len(todos.items) >= 2
    /\ Head(todos.items).text = <<"x">>
    /\ ~Head(todos.items).completed

\* C7: a second toggle of the same existing task, right after the first,
\* gives the task the completed value it had before the two.
C7_ToggleTwiceRestores ==
    [][\A id \in KnownIds :
          (/\ ToggleStep(id)
           /\ lastToggle.op = "toggle"
           /\ lastToggle.id = id
           /\ id \in IdsOf(todos.items)
           /\ phase' = "running")
          => CompletedOf(todos'.items, id) = lastToggle.was]_vars

\* C8: every task of the collection has a non-empty id and no two tasks
\* share one, whatever the store held when the page was opened.
C8_UniqueNonEmptyIds ==
    phase = "running" =>
        /\ \A i \in 1..Len(todos.items) : todos.items[i].id # ""
        /\ \A i, j \in 1..Len(todos.items) :
              todos.items[i].id = todos.items[j].id => i = j

\* C9: the active count and the completed count add up to the number of
\* tasks, after every operation.
C9_CountsAddUp ==
    phase = "running" =>
        activeTodosCount + completedTodosCount = Len(todos.items)

\* C9 witness: an operation left a collection with an active and a completed
\* task.
C9_Witness ==
    /\ phase = "running"
    /\ toast # "none"
    /\ activeTodosCount >= 1
    /\ completedTodosCount >= 1

\* C10: every toggle and every delete is applied to the collection that all
\* earlier events left: nothing an earlier event did is overwritten.
C10_NoLostUpdate ==
    [][\A id \in KnownIds :
          /\ (ToggleStep(id) /\ phase' = "running")
                => todos'.items = Toggled(todos.items, id)
          /\ (DeleteStep(id) /\ phase' = "running")
                => todos'.items = Without(todos.items, id)]_vars

====
